---- MODULE Spec2Model ----
(***************************************************************************)
(* Model of the CV / job-description similarity scorer                     *)
(* (app/utils/evaluation/cv_matcher.py) and of the language table          *)
(* (language/supported_languages.py).                                      *)
(*                                                                         *)
(* A text is a sequence of one-character strings.  A score is a fixed      *)
(* point number: the integer s stands for s / Scale.                       *)
(***************************************************************************)
EXTENDS Integers, Sequences, FiniteSets, TLC

\* ------------------------------------------------------------------ bounds
\* A request (job_description, cv_text) carries at most MaxChars characters
\* in total.
MaxChars == 4

\* ------------------------------------------------------------- characters
Alphabet == {"a", "A", " "}

Whitespace == {" "}

\* str.lower() on one character.
LowerChar(c) == IF c = "A" THEN "a" ELSE c

\* str.lower()
Lower(word) == [i \in 1..Len(word) |-> LowerChar(word[i])]

RECURSIVE LStrip(_)
LStrip(s) ==
    IF s = <<>> THEN s
    ELSE IF Head(s) \in Whitespace THEN LStrip(Tail(s)) ELSE s

RECURSIVE RStrip(_)
RStrip(s) ==
    IF s = <<>> THEN s
    ELSE IF s[Len(s)] \in Whitespace THEN RStrip(SubSeq(s, 1, Len(s) - 1)) ELSE s

\* str.strip()
Strip(s) == RStrip(LStrip(s))

\* str.split(): the maximal runs of non-whitespace characters, in order.
RECURSIVE SplitFrom(_, _, _)
SplitFrom(s, cur, acc) ==
    IF s = <<>> THEN (IF cur = <<>> THEN acc ELSE Append(acc, cur))
    ELSE IF Head(s) \in Whitespace
         THEN SplitFrom(Tail(s), <<>>, IF cur = <<>> THEN acc ELSE Append(acc, cur))
         ELSE SplitFrom(Tail(s), Append(cur, Head(s)), acc)

Split(s) == SplitFrom(s, <<>>, <<>>)

\* " ".join(words)
RECURSIVE Join(_)
Join(words) ==
    IF words = <<>> THEN <<>>
    ELSE IF Len(words) = 1 THEN words[1]
    ELSE words[1] \o <<" ">> \o Join(Tail(words))

\* ---------------------------------------------------------- language table
SUPPORTED_LANGUAGES ==
    [c \in {"en", "tr", "de", "fr", "es", "it", "nl"} |->
        CASE c = "en" -> "English"
          [] c = "tr" -> "Turkish"
          [] c = "de" -> "German"
          [] c = "fr" -> "French"
          [] c = "es" -> "Spanish"
          [] c = "it" -> "Italian"
          [] c = "nl" -> "Dutch"]

\* Variant: the language is not checked.
IsSupported_NoCheck(language) == TRUE

\* `language not in SUPPORTED_LANGUAGES` tests the keys of the table.
IsSupported(language) == language \in DOMAIN SUPPORTED_LANGUAGES

\* -------------------------------------------------------- stopword corpus
\* The NLTK stopword corpus: one word list per file id.  The file ids are
\* lowercase English language names; the words are lowercase.
StopwordCorpus ==
    [f \in {"english", "turkish", "german", "french", "spanish", "italian",
            "dutch", "arabic"} |->
        CASE f = "english" -> {<<"a">>}
          [] f = "turkish" -> {<<"a", "a">>}
          [] f = "german"  -> {<<"a">>, <<"a", "a">>}
          [] f = "arabic"  -> {}
          [] OTHER         -> {<<"a">>}]

\* stopwords.fileids()
FileIds == DOMAIN StopwordCorpus

\* nltk.download('stopwords', quiet=True): installs the corpus when the
\* download succeeds, leaves it as it was otherwise; it does not raise.
Download(corp, succeeds) == IF succeeds THEN "present" ELSE corp

\* The body of the try block / of the except block of get_stopwords once
\* stopwords.fileids() has answered.
WordsFor(language) ==
    IF language \in FileIds THEN StopwordCorpus[language] ELSE {}

LookupErrorMsg == "Resource stopwords not found."

\* Variant: the corpus is downloaded again at every lookup.
GetStopwords_AlwaysDownload(language, corp, succeeds) ==
    LET after == Download(corp, succeeds) IN
    IF after = "present"
    THEN [raised |-> FALSE, words |-> WordsFor(language),
          corpus |-> after, downloads |-> 1]
    ELSE [raised |-> TRUE, words |-> {},
          corpus |-> after, downloads |-> 1]

\* get_stopwords(language) with the corpus in state corp; succeeds tells
\* whether a download attempted by this lookup succeeds.  raised: a
\* LookupError leaves the function.
GetStopwords(language, corp, succeeds) ==
    IF corp = "present"
    THEN [raised |-> FALSE, words |-> WordsFor(language),
          corpus |-> corp, downloads |-> 0]
    ELSE \* stopwords.fileids() raised LookupError: the except block runs
         LET after == Download(corp, succeeds) IN
         IF after = "present"
         THEN [raised |-> FALSE, words |-> WordsFor(language),
               corpus |-> after, downloads |-> 1]
         ELSE \* the second stopwords.fileids() raises inside the handler
              [raised |-> TRUE, words |-> {},
               corpus |-> after, downloads |-> 1]

\* Variant: the words kept are put into lower case.
RECURSIVE FilterWords_Lowercase(_, _)
FilterWords_Lowercase(words, stop_words) ==
    IF words = <<>> THEN <<>>
    ELSE IF Lower(Head(words)) \notin stop_words
         THEN <<Lower(Head(words))>>
                  \o FilterWords_Lowercase(Tail(words), stop_words)
         ELSE FilterWords_Lowercase(Tail(words), stop_words)

\* The list comprehension of preprocess_text.
RECURSIVE FilterWords(_, _)
FilterWords(words, stop_words) ==
    IF words = <<>> THEN <<>>
    ELSE IF Lower(Head(words)) \notin stop_words
         THEN <<Head(words)>> \o FilterWords(Tail(words), stop_words)
         ELSE FilterWords(Tail(words), stop_words)

\* preprocess_text(text, language); lookup is the call of get_stopwords it
\* made and what that call answered.
PreprocessText(text, language, corp, succeeds) ==
    LET sw == GetStopwords(language, corp, succeeds) IN
    [raised    |-> sw.raised,
     text      |-> IF sw.raised THEN <<>>
                   ELSE Join(FilterWords(Split(text), sw.words)),
     lookup    |-> [language |-> language, raised |-> sw.raised,
                    words |-> sw.words],
     corpus    |-> sw.corpus,
     downloads |-> sw.downloads]

\* ------------------------------------------------------ embedding provider
\* embed is an opaque deterministic function from a text to a vector, fixed
\* when the module is loaded; a call of it may also fail.  The loaded model
\* is one of a family of functions under which every text can get every
\* outcome of EmbedTable and two texts can get every pair of outcomes.
EmbedTable ==
    << [ok |-> FALSE, vec |-> <<0, 0>>],
       [ok |-> TRUE,  vec |-> <<0, 0>>],
       [ok |-> TRUE,  vec |-> <<1, 0>>],
       [ok |-> TRUE,  vec |-> <<-1, 0>>],
       [ok |-> TRUE,  vec |-> <<1, 1>>] >>

EmbedModels == 0..(Len(EmbedTable) - 1)

CharCode(c) == CASE c = "a" -> 1 [] c = "A" -> 2 [] OTHER -> 3

RECURSIVE TextCode(_)
TextCode(t) ==
    IF t = <<>> THEN 0
    ELSE TextCode(SubSeq(t, 1, Len(t) - 1)) * Cardinality(Alphabet)
         + CharCode(t[Len(t)])

\* embed([text]) under the loaded model m.
Embed(text, m) == EmbedTable[((TextCode(text) + m) % Len(EmbedTable)) + 1]

EmbedErrorMsg == "embedding provider failed"

\* ------------------------------------------------------- cosine similarity
\* Scores are fixed point numbers with Scale units to 1.0.
Scale == 100

Dot(x, y) == x[1] * y[1] + x[2] * y[2]

Norm2(x) == Dot(x, x)

ISqrt(n, max) == CHOOSE r \in 0..max : r * r <= n /\ (r + 1) * (r + 1) > n

\* a / b rounded to the nearest integer, b > 0.
RoundDiv(a, b) == (2 * a + b) \div (2 * b)

\* Variant: equal vectors are given similarity 1.0 without being normalised.
CosineSimilarity_EqualIsOne(x, y) ==
    IF x = y THEN Scale
    ELSE IF Norm2(x) = 0 \/ Norm2(y) = 0 THEN 0
    ELSE RoundDiv(Dot(x, y) * Scale * Scale,
                  ISqrt(Norm2(x) * Norm2(y) * Scale * Scale,
                        (Norm2(x) + Norm2(y)) * Scale))

\* Variant: the dot product is returned without being normalised.
CosineSimilarity_Unnormalised(x, y) == Dot(x, y) * Scale

\* Variant: the dot product is divided by the first vector's norm only.
CosineSimilarity_FirstNormOnly(x, y) ==
    IF Norm2(x) = 0 \/ Norm2(y) = 0 THEN 0
    ELSE RoundDiv(Dot(x, y) * Scale * Scale,
                  ISqrt(Norm2(x) * Scale * Scale, Norm2(x) * Scale))

\* sklearn's cosine_similarity(X, Y)[0][0]: each row is divided by its norm,
\* a zero norm being replaced by 1, and the dot product is taken.
CosineSimilarity(x, y) ==
    IF Norm2(x) = 0 \/ Norm2(y) = 0 THEN 0
    ELSE LET n2   == Norm2(x) * Norm2(y)
             big  == IF Norm2(x) > Norm2(y) THEN Norm2(x) ELSE Norm2(y)
             norm == ISqrt(n2 * Scale * Scale, big * Scale)
         IN  RoundDiv(Dot(x, y) * Scale * Scale, norm)

\* ------------------------------------------------------------ the scorer
Returned(v) == [kind |-> "return", type |-> "float", msg |-> <<>>, value |-> v]

Raised(type, msg) == [kind |-> "raise", type |-> type, msg |-> msg, value |-> 0]

EmptyMsg == "Job description and CV text cannot be empty."

UnsupportedMsg == "Unsupported language: "

WrapMsg == "Error computing similarity score: "

\* Variant: the text is tested without being stripped.
IsBlank_NoStrip(text) == text = <<>>

\* `not text.strip()`
IsBlank(text) == Strip(text) = <<>>

\* Variant: the handler answers a default score instead of raising.
Wrapped_DefaultScore(msg) == Returned(0)

\* except Exception as e: raise Exception(f"Error computing ...: {str(e)}")
Wrapped(msg) == Raised("Exception", <<WrapMsg, msg>>)

\* One call of embed, as the scorer's caller sees it.
EmbedCall(text, m) ==
    [text |-> text, ok |-> Embed(text, m).ok, vec |-> Embed(text, m).vec]

\* Variant: a failed call of embed is tried once more before giving up.
EmbedAndCompare_Retry(job_clean, cv_clean, m) ==
    LET job == EmbedCall(job_clean, m)
        cv  == EmbedCall(cv_clean, m)
    IN  IF ~job.ok
        THEN [outcome |-> Wrapped(EmbedErrorMsg), embedded |-> <<job, job>>]
        ELSE IF ~cv.ok
        THEN [outcome |-> Wrapped(EmbedErrorMsg), embedded |-> <<job, cv, cv>>]
        ELSE [outcome |-> Returned(CosineSimilarity(job.vec, cv.vec)),
              embedded |-> <<job, cv>>]

\* The try block of compute_similarity_score once both texts are cleaned.
EmbedAndCompare(job_clean, cv_clean, m) ==
    LET job == EmbedCall(job_clean, m)
        cv  == EmbedCall(cv_clean, m)
    IN  IF ~job.ok
        THEN [outcome |-> Wrapped(EmbedErrorMsg), embedded |-> <<job>>]
        ELSE IF ~cv.ok
        THEN [outcome |-> Wrapped(EmbedErrorMsg), embedded |-> <<job, cv>>]
        ELSE [outcome |-> Returned(CosineSimilarity(job.vec, cv.vec)),
              embedded |-> <<job, cv>>]

\* compute_similarity_score(job_description, cv_text, language) run to its
\* end with the corpus in state corp and the model m loaded.  The result
\* holds the outcome, the calls of get_stopwords and of embed in order, the
\* number of download attempts and the corpus state the call leaves.
ComputeSimilarityScore(job, cv, lang, corp, m, succeeds) ==
    IF IsBlank(job) \/ IsBlank(cv)
    THEN [outcome |-> Raised("ValueError", <<EmptyMsg>>), lookups |-> <<>>,
          embedded |-> <<>>, downloads |-> 0, corpus |-> corp]
    ELSE IF ~IsSupported(lang)
    THEN [outcome |-> Raised("ValueError", <<UnsupportedMsg, lang>>),
          lookups |-> <<>>, embedded |-> <<>>, downloads |-> 0,
          corpus |-> corp]
    ELSE LET j == PreprocessText(job, lang, corp, succeeds) IN
         IF j.raised
         THEN [outcome |-> Wrapped(LookupErrorMsg), lookups |-> <<j.lookup>>,
               embedded |-> <<>>, downloads |-> j.downloads,
               corpus |-> j.corpus]
         ELSE LET c == PreprocessText(cv, lang, j.corpus, succeeds) IN
              IF c.raised
              THEN [outcome |-> Wrapped(LookupErrorMsg),
                    lookups |-> <<j.lookup, c.lookup>>, embedded |-> <<>>,
                    downloads |-> j.downloads + c.downloads,
                    corpus |-> c.corpus]
              ELSE LET r == EmbedAndCompare(j.text, c.text, m) IN
                   [outcome |-> r.outcome,
                    lookups |-> <<j.lookup, c.lookup>>,
                    embedded |-> r.embedded,
                    downloads |-> j.downloads + c.downloads,
                    corpus |-> c.corpus]

\* ------------------------------------------------------------- the state
VARIABLES
    job_description,  \* the two texts and the language code under study
    cv_text,
    language,
    embed,            \* the embedding model loaded at import (one of EmbedModels)
    corpus,           \* "present" / "absent": is the stopword corpus installed
    last,             \* the last call compute_similarity_score(job_description,
                      \* cv_text, language): what it did and how it ended
    lastSwapped       \* the same for the last call with the two texts swapped,
                      \* compute_similarity_score(cv_text, job_description, language)
,
    threads           \* calls compute_similarity_score(job_description, cv_text,
                      \* language) running at the same time: where each one
                      \* is and what it has seen
,
    API_KEY,          \* the key the service is configured with, or None
    request,          \* the HTTP request under study
    pc,               \* "received", "inside" (its with block) or "answered"
    responses,        \* the responses sent to it, in order
    effects,          \* the calls its handler has made, in order
    exception,        \* the text of the exception its handler caught
    temp_dir,         \* the temporary directory made for it, 0 for none
    dirs,             \* the directories that exist under TEMP_DIR ...
    files,            \* ... and the files in them
    other_dir,        \* the temporary directory of another upload request
                      \* in flight, 0 for none
    pre,              \* the last call preprocess_text(job_description, language)
    again             \* the last call of preprocess_text on the text pre returned

httpVars == <<API_KEY, request, pc, responses, effects, exception, temp_dir,
              dirs, files, other_dir>>

preVars == <<pre, again>>

vars == <<job_description, cv_text, language, embed, corpus, last, lastSwapped,
          threads, httpVars, preVars>>

\* preprocess_text has not been called.
NotPreprocessed == [called |-> FALSE, raised |-> FALSE, text |-> <<>>]

PreIdle ==
    /\ pre = NotPreprocessed
    /\ again = NotPreprocessed

\* No request has been received.
NoRequest ==
    [endpoint |-> "/health", key |-> "None", content |-> "json",
     job_description |-> <<>>, cv_file |-> [filename |-> "", text |-> <<>>],
     file_format |-> "None", language |-> "None", admitted |-> TRUE]

HttpIdle ==
    /\ API_KEY = "None"
    /\ request = NoRequest
    /\ pc = "answered"
    /\ responses = <<>>
    /\ effects = <<>>
    /\ exception = <<>>
    /\ temp_dir = 0
    /\ dirs = {}
    /\ files = {}
    /\ other_dir = 0

RECURSIVE TextsOfLen(_)
TextsOfLen(n) ==
    IF n = 0 THEN {<<>>}
    ELSE {Append(t, c) : t \in TextsOfLen(n - 1), c \in Alphabet}

TextsUpTo(n) == UNION {TextsOfLen(k) : k \in 0..n}

\* The language arguments tried: every key of the table, a code outside it
\* and a stopword file id.
LanguageInputs == DOMAIN SUPPORTED_LANGUAGES \cup {"xx", "english"}

\* No call made yet.
NoCall ==
    [called |-> FALSE, corpusAtCall |-> "absent", corpusAfter |-> "absent",
     outcome |-> Returned(0), lookups |-> <<>>, embedded |-> <<>>,
     downloads |-> 0]

\* The greatest number of calls running at the same time, and the greatest
\* length of a text they are given.
MaxThreads == 2

MaxThreadChars == 1

Threads == 1..MaxThreads

\* A call that has not started.
NotStarted ==
    [pc |-> "idle", stage |-> 0, corpusAtCall |-> "absent",
     download |-> "none", outcome |-> Returned(0)]

NoThreads == [t \in Threads |-> NotStarted]

\* What a call that started with the corpus in state corp leaves behind.
CallRecord(r, corp) ==
    [called |-> TRUE, corpusAtCall |-> corp, corpusAfter |-> r.corpus,
     outcome |-> r.outcome, lookups |-> r.lookups, embedded |-> r.embedded,
     downloads |-> r.downloads]

\* The module has been imported: the model is loaded and the corpus was
\* downloaded, or the download failed.
Init ==
    /\ job_description \in TextsUpTo(MaxChars)
    /\ cv_text \in TextsUpTo(MaxChars - Len(job_description))
    /\ language \in LanguageInputs
    /\ embed \in EmbedModels
    /\ corpus \in {"present", "absent"}
    /\ last = NoCall
    /\ lastSwapped = NoCall
    /\ threads = NoThreads
    /\ HttpIdle
    /\ PreIdle

\* A call compute_similarity_score(job_description, cv_text, language).
Call(succeeds) ==
    LET r == ComputeSimilarityScore(job_description, cv_text, language,
                                    corpus, embed, succeeds)
    IN  /\ last' = CallRecord(r, corpus)
        /\ corpus' = r.corpus
        /\ UNCHANGED <<job_description, cv_text, language, embed, lastSwapped,
                       threads, httpVars, preVars>>

\* A call compute_similarity_score(cv_text, job_description, language).
CallSwapped(succeeds) ==
    LET r == ComputeSimilarityScore(cv_text, job_description, language,
                                    corpus, embed, succeeds)
    IN  /\ lastSwapped' = CallRecord(r, corpus)
        /\ corpus' = r.corpus
        /\ UNCHANGED <<job_description, cv_text, language, embed, last,
                       threads, httpVars, preVars>>

\* A call attempts a download only while the corpus is absent: the attempt
\* fails or succeeds.  With the corpus installed nothing is downloaded.
DownloadOutcomes == IF corpus = "absent" THEN BOOLEAN ELSE {TRUE}

Next ==
    \/ \E succeeds \in DownloadOutcomes : Call(succeeds)
    \/ \E succeeds \in DownloadOutcomes : CallSwapped(succeeds)

Spec == Init /\ [][Next]_vars

\* ------------------------------------------------- calls running together
\* compute_similarity_score is run by several request threads at once.  A
\* thread's steps are the places where it reads or writes what the threads
\* share, the stopword corpus: the call of stopwords.fileids() in the try
\* block of get_stopwords, the download and the second stopwords.fileids()
\* in its except block.  stage counts the texts preprocessed so far.
ThreadInit ==
    /\ job_description \in TextsUpTo(MaxThreadChars)
    /\ cv_text \in TextsUpTo(MaxThreadChars)
    /\ language \in {"en", "xx"}
    /\ embed \in EmbedModels
    /\ corpus \in {"present", "absent"}
    /\ last = NoCall
    /\ lastSwapped = NoCall
    /\ threads = NoThreads
    /\ HttpIdle
    /\ PreIdle

ThreadFrame == UNCHANGED <<job_description, cv_text, language, embed, last,
                          lastSwapped, httpVars, preVars>>

\* Lines 83-87: the two tests on the arguments.
Begin(t) ==
    /\ threads[t].pc = "idle"
    /\ threads' = [threads EXCEPT ![t] =
          IF IsBlank(job_description) \/ IsBlank(cv_text)
          THEN [@ EXCEPT !.pc = "done", !.corpusAtCall = corpus,
                         !.outcome = Raised("ValueError", <<EmptyMsg>>)]
          ELSE IF ~IsSupported(language)
          THEN [@ EXCEPT !.pc = "done", !.corpusAtCall = corpus,
                         !.outcome = Raised("ValueError",
                                            <<UnsupportedMsg, language>>)]
          ELSE [@ EXCEPT !.pc = "fileids", !.corpusAtCall = corpus]]
    /\ UNCHANGED corpus
    /\ ThreadFrame

\* Where a thread goes once get_stopwords has answered for one more text.
AfterLookup(th) ==
    IF th.stage = 0
    THEN [th EXCEPT !.pc = "fileids", !.stage = 1]
    ELSE [th EXCEPT !.pc = "embed", !.stage = 2]

\* Line 39: stopwords.fileids() in the try block of get_stopwords.
TryFileIds(t) ==
    /\ threads[t].pc = "fileids"
    /\ threads' = [threads EXCEPT ![t] =
          IF corpus = "present" THEN AfterLookup(@)
          ELSE [@ EXCEPT !.pc = "download"]]
    /\ UNCHANGED corpus
    /\ ThreadFrame

\* Line 42: nltk.download('stopwords', quiet=True) in the except block.
TryDownload(t, succeeds) ==
    /\ threads[t].pc = "download"
    /\ corpus' = Download(corpus, succeeds)
    /\ threads' = [threads EXCEPT ![t] =
          [@ EXCEPT !.pc = "retry",
                    !.download = IF succeeds THEN "succeeded" ELSE "failed"]]
    /\ ThreadFrame

\* Line 43: stopwords.fileids() in the except block; its LookupError
\* leaves get_stopwords and is wrapped by lines 99-100.
RetryFileIds(t) ==
    /\ threads[t].pc = "retry"
    /\ threads' = [threads EXCEPT ![t] =
          IF corpus = "present" THEN AfterLookup(@)
          ELSE [@ EXCEPT !.pc = "done",
                         !.outcome = Wrapped(LookupErrorMsg)]]
    /\ UNCHANGED corpus
    /\ ThreadFrame

\* Lines 93-97 on the two cleaned texts.
EmbedBoth(t) ==
    /\ threads[t].pc = "embed"
    /\ threads' = [threads EXCEPT ![t] =
          [@ EXCEPT !.pc = "done",
                    !.outcome =
                        EmbedAndCompare(
                            Join(FilterWords(Split(job_description),
                                             WordsFor(language))),
                            Join(FilterWords(Split(cv_text),
                                             WordsFor(language))),
                            embed).outcome]]
    /\ UNCHANGED corpus
    /\ ThreadFrame

ThreadNext ==
    \E t \in Threads :
        \/ Begin(t)
        \/ TryFileIds(t)
        \/ \E succeeds \in BOOLEAN : TryDownload(t, succeeds)
        \/ RetryFileIds(t)
        \/ EmbedBoth(t)

ThreadSpec == ThreadInit /\ [][ThreadNext]_vars

\* ------------------------------------------------- preprocess_text alone
\* preprocess_text(job_description, language) is called on any text and any
\* language argument, and then on the text it returned.
PreInit ==
    /\ job_description \in TextsUpTo(MaxChars)
    /\ cv_text = <<>>
    /\ language \in LanguageInputs
    /\ embed = 0
    /\ corpus \in {"present", "absent"}
    /\ last = NoCall
    /\ lastSwapped = NoCall
    /\ threads = NoThreads
    /\ HttpIdle
    /\ PreIdle

PreFrame == UNCHANGED <<job_description, cv_text, language, embed, last,
                       lastSwapped, threads, httpVars>>

\* What a call of preprocess_text leaves behind.
PreRecord(r) == [called |-> TRUE, raised |-> r.raised, text |-> r.text]

\* A call preprocess_text(job_description, language).
Preprocess(succeeds) ==
    LET r == PreprocessText(job_description, language, corpus, succeeds)
    IN  /\ pre' = PreRecord(r)
        /\ corpus' = r.corpus
        /\ UNCHANGED again
        /\ PreFrame

\* A call preprocess_text(t, language) on the text t the last call returned.
PreprocessAgain(succeeds) ==
    /\ pre.called
    /\ ~pre.raised
    /\ LET r == PreprocessText(pre.text, language, corpus, succeeds)
       IN  /\ again' = PreRecord(r)
           /\ corpus' = r.corpus
    /\ UNCHANGED pre
    /\ PreFrame

PreNext ==
    \/ \E succeeds \in DownloadOutcomes : Preprocess(succeeds)
    \/ \E succeeds \in DownloadOutcomes : PreprocessAgain(succeeds)

PreSpec == PreInit /\ [][PreNext]_vars

\* ------------------------------------------------------ the HTTP endpoints
\* Python's None, for a header or a field the request does not carry.
None == "None"

\* None for a field whose value is a text.
NoText == <<"None">>

\* `not x` for an optional string and for an optional text.
Falsy(x) == x = None \/ x = ""

FalsyText(t) == t = NoText \/ t = <<>>

Endpoints ==
    {"/generate_cover_letter", "/generate_cover_letter_with_cv",
     "/evaluate_cv_match", "/generate_interview_questions"}

\* The endpoints that take an uploaded CV.
UploadEndpoints == Endpoints \ {"/generate_cover_letter"}

\* str.lower() on the format and language codes tried.
LowerCode(s) ==
    CASE s = "EN"  -> "en"
      [] s = "PDF" -> "pdf"
      [] OTHER     -> s

\* SUPPORTED_LANGUAGES.get(language_code, None)
get_language_name(language_code) ==
    IF language_code \in DOMAIN SUPPORTED_LANGUAGES
    THEN SUPPORTED_LANGUAGES[language_code]
    ELSE None

FORMAT_FUNCTIONS ==
    [f \in {"pdf", "docx", "txt"} |->
        CASE f = "pdf"  -> "save_as_pdf"
          [] f = "docx" -> "save_as_docx"
          [] f = "txt"  -> "save_as_txt"]

\* FORMAT_FUNCTIONS.get(file_format)
get_format_function(file_format) ==
    IF file_format \in DOMAIN FORMAT_FUNCTIONS
    THEN FORMAT_FUNCTIONS[file_format]
    ELSE None

ExtractErrorMsg == "Unsupported file format."

\* extract_text(file_path): dispatches on the lowercased suffix of the
\* saved file.
extract_text(file) ==
    IF LowerCode(file.suffix) \in {".pdf", ".docx", ".txt"}
    THEN [raised |-> FALSE, text |-> file.text, msg |-> <<>>]
    ELSE [raised |-> TRUE, text |-> <<>>, msg |-> <<ExtractErrorMsg>>]

OpenAIErrorMsg == "OpenAI API Error: "

SaveErrorMsg == "Error saving PDF file: "

\* A response: the status, the parts of the JSON body (or what the body
\* carries) and the rounded score of /evaluate_cv_match in hundredths.
Response(status, body) == [status |-> status, body |-> body, score |-> 0]

\* The exception handler of every endpoint.
\* Variant: the text of the exception is put into the response.
ErrorResponse_Leaky(msg) == Response(500, <<"Internal server error.">> \o msg)

\* except Exception as e: ... return jsonify({"error": "Internal server
\* error."}), 500
ErrorResponse(msg) == Response(500, <<"Internal server error.">>)

\* What a handler, or a part of one, has done: whether it has answered, the
\* response, the calls made in order, the exception caught (its text) and
\* the corpus it leaves.
Done(resp, calls, exc, corp) ==
    [answered |-> TRUE, response |-> resp, effects |-> calls,
     exception |-> exc, corpus |-> corp]

\* The exception of text msg, raised after the calls made, was caught.
Caught(msg, calls, corp) == Done(ErrorResponse(msg), calls, msg, corp)

\* Variant: every request that carries a key is let through.
Authenticated_AnyKey(api_key, configured) == ~Falsy(api_key)

\* api_key_required: the request passes when neither test answers 401.
Authenticated(api_key, configured) ==
    /\ ~Falsy(api_key)
    /\ ~(api_key # configured)

\* The 401 answer of api_key_required.
Unauthorized(api_key) ==
    IF Falsy(api_key)
    THEN Response(401, <<"Missing API Key">>)
    ELSE Response(401, <<"Invalid API Key">>)

\* The answer of the rate limiter to a request over the limit.
TooManyRequests == Response(429, <<"Too Many Requests">>)

\* request.form.get(name) / request.files.get(name): the form is parsed
\* only from a multipart body.
FormField(req, name, missing) ==
    IF req.content = "multipart" THEN req[name] ELSE missing

\* request.form.get(name, default).lower()
LowerFormField(req, name, default) ==
    LET v == FormField(req, name, None) IN
    LowerCode(IF v = None THEN default ELSE v)

JsonRequiredMsg == "Request must be in JSON format."

JobRequiredMsg == "Job description is required."

FieldsRequiredMsg == "CV file and job description are required."

InvalidFormatMsg == "Invalid file format. Choose from 'pdf', 'docx', 'txt'."

UnsupportedLanguageMsg ==
    "Unsupported language. Choose from ['en', 'tr', 'de', 'fr', 'es', 'it', 'nl']."

\* No file under the name cv_file; such a FileStorage is falsy.
NoFile == [filename |-> "", text |-> <<>>]

\* os.path.splitext(filename)[-1] on the file names tried.
get_file_suffix(filename) ==
    CASE filename = "cv.txt" -> ".txt"
      [] filename = "cv.exe" -> ".exe"
      [] OTHER               -> ""

\* The file save_temporary_file has written into the temporary directory.
SavedFile(cv_file) ==
    [suffix |-> get_file_suffix(cv_file.filename), text |-> cv_file.text]

\* What a call of compute_similarity_score shows to the outside: the call,
\* its test of the language code (line 86, reached unless a text is
\* blank) and its calls of embed.
ScorerEffects(r) ==
    <<"compute_similarity_score">>
        \o (IF r.outcome = Raised("ValueError", <<EmptyMsg>>) THEN <<>>
            ELSE <<"language in SUPPORTED_LANGUAGES">>)
        \o [i \in 1..Len(r.embedded) |-> "embed"]

\* round(similarity_score, 2), in hundredths.
Round2(score) == RoundDiv(score * 100, Scale)

\* The body of generate_cover_letter_endpoint.  env tells how the calls
\* out of the process end: llm_ok for the LLM call, write_ok for the
\* writing of the output file.
GenerateCoverLetter(req, env, corp) ==
    IF req.content # "json"
    THEN Done(Response(415, <<JsonRequiredMsg>>), <<>>, <<>>, corp)
    ELSE
    LET job == req.job_description
        file_format == LowerCode(IF req.file_format = None THEN ""
                                 ELSE req.file_format)
        lang == LowerCode(IF req.language = None THEN "en" ELSE req.language)
    IN
    IF FalsyText(job) \/ Strip(job) = <<>>
    THEN Done(Response(400, <<JobRequiredMsg>>), <<>>, <<>>, corp)
    ELSE IF get_format_function(file_format) = None
    THEN Done(Response(400, <<InvalidFormatMsg>>),
              <<"get_format_function">>, <<>>, corp)
    ELSE IF get_language_name(lang) = None
    THEN Done(Response(400, <<UnsupportedLanguageMsg>>),
              <<"get_format_function", "get_language_name">>, <<>>, corp)
    ELSE IF ~env.llm_ok
    THEN Caught(<<OpenAIErrorMsg>>,
                <<"get_format_function", "get_language_name", "openai">>,
                corp)
    ELSE IF ~env.write_ok
    THEN Caught(<<SaveErrorMsg>>,
                <<"get_format_function", "get_language_name", "openai",
                  "format_function">>, corp)
    ELSE Done(Response(200, <<"file", file_format>>),
              <<"get_format_function", "get_language_name", "openai",
                "format_function", "send_file">>, <<>>, corp)

\* `not cv_file or not job_description` of the three upload endpoints.
MissingFields(req) ==
    \/ FormField(req, "cv_file", NoFile) = NoFile
    \/ FalsyText(FormField(req, "job_description", NoText))

\* The body of generate_cover_letter_with_cv_endpoint from extract_text on,
\* the upload being saved as file.
CoverLetterWithCv(req, file, env, corp) ==
    LET job == FormField(req, "job_description", NoText)
        file_format == LowerFormField(req, "file_format", "")
        lang == LowerFormField(req, "language", "en")
        x == extract_text(file)
    IN
    IF x.raised THEN Caught(x.msg, <<"extract_text">>, corp)
    ELSE IF get_language_name(lang) = None
    THEN Done(Response(400, <<UnsupportedLanguageMsg>>),
              <<"extract_text", "get_language_name">>, <<>>, corp)
    ELSE IF ~env.llm_ok
    THEN Caught(<<OpenAIErrorMsg>>,
                <<"extract_text", "get_language_name", "openai">>, corp)
    ELSE IF get_format_function(file_format) = None
    THEN Done(Response(400, <<InvalidFormatMsg>>),
              <<"extract_text", "get_language_name", "openai",
                "get_format_function">>, <<>>, corp)
    ELSE IF ~env.write_ok
    THEN Caught(<<SaveErrorMsg>>,
                <<"extract_text", "get_language_name", "openai",
                  "get_format_function", "format_function">>, corp)
    ELSE Done(Response(200, <<"file", file_format>>),
              <<"extract_text", "get_language_name", "openai",
                "get_format_function", "format_function", "send_file">>,
              <<>>, corp)

\* The body of evaluate_cv_match_endpoint from extract_text on.  m is the
\* embedding model loaded, env.succeeds the outcome of a download the
\* scorer attempts.
EvaluateCvMatch(req, file, env, corp, m) ==
    LET job == FormField(req, "job_description", NoText)
        lang == LowerFormField(req, "language", "en")
        x == extract_text(file)
    IN
    IF x.raised THEN Caught(x.msg, <<"extract_text">>, corp)
    ELSE
    LET r == ComputeSimilarityScore(job, x.text, lang, corp, m,
                                    env.succeeds)
    IN
    IF r.outcome.kind = "raise"
    THEN Caught(r.outcome.msg, <<"extract_text">> \o ScorerEffects(r),
                r.corpus)
    ELSE IF get_language_name(lang) = None
    THEN Done(Response(400, <<UnsupportedLanguageMsg>>),
              <<"extract_text">> \o ScorerEffects(r)
                  \o <<"get_language_name">>, <<>>, r.corpus)
    ELSE IF ~env.llm_ok
    THEN Caught(<<OpenAIErrorMsg>>,
                <<"extract_text">> \o ScorerEffects(r)
                    \o <<"get_language_name", "openai">>, r.corpus)
    ELSE Done([status |-> 200, body |-> <<"similarity_score", "evaluation">>,
               score |-> Round2(r.outcome.value)],
              <<"extract_text">> \o ScorerEffects(r)
                  \o <<"get_language_name", "openai">>, <<>>, r.corpus)

\* The body of generate_interview_questions_endpoint from extract_text on.
InterviewQuestions(req, file, env, corp) ==
    LET lang == LowerFormField(req, "language", "en")
        x == extract_text(file)
    IN
    IF x.raised THEN Caught(x.msg, <<"extract_text">>, corp)
    ELSE IF get_language_name(lang) = None
    THEN Done(Response(400, <<UnsupportedLanguageMsg>>),
              <<"extract_text", "get_language_name">>, <<>>, corp)
    ELSE IF ~env.llm_ok
    THEN Caught(<<OpenAIErrorMsg>>,
                <<"extract_text", "get_language_name", "openai">>, corp)
    ELSE Done(Response(200, <<"interview_qa">>),
              <<"extract_text", "get_language_name", "openai">>, <<>>, corp)

\* The greatest number of directory names mkdtemp draws from.
MaxTempDirs == 2

TempDirNames == 1..MaxTempDirs

\* Variant: the directory name is not tested against the existing ones.
FreshDirs_Reused(existing) == TempDirNames

\* tempfile.TemporaryDirectory(dir=TEMP_DIR): mkdtemp makes a directory
\* under a name no existing directory has.
FreshDirs(existing) == TempDirNames \ {d.name : d \in existing}

\* TemporaryDirectory.cleanup(): the directory name and all in it are removed.
RemoveDir(existing, name) == {d \in existing : d.name # name}

\* The requests tried.
Requests ==
    [endpoint        : Endpoints,
     key             : {None, "", "k1", "k2"},
     content         : {"json", "multipart"},
     job_description : {NoText, <<>>, <<" ">>, <<"a">>},
     cv_file         : {NoFile, [filename |-> "cv.txt", text |-> <<"a">>],
                        [filename |-> "cv.exe", text |-> <<"a">>]},
     file_format     : {None, "PDF", "xml"},
     language        : {None, "EN", "xx"},
     admitted        : BOOLEAN]

\* How the calls out of the process end for one request.
Environments == [succeeds : BOOLEAN, llm_ok : BOOLEAN, write_ok : BOOLEAN]

\* The service is up and a request arrives.
HttpInit ==
    /\ job_description = <<>>
    /\ cv_text = <<>>
    /\ language = "en"
    /\ embed \in {1, 4}
    /\ corpus \in {"present", "absent"}
    /\ last = NoCall
    /\ lastSwapped = NoCall
    /\ threads = NoThreads
    /\ API_KEY \in {None, "k1"}
    /\ request \in Requests
    /\ pc = "received"
    /\ responses = <<>>
    /\ effects = <<>>
    /\ exception = <<>>
    /\ temp_dir = 0
    /\ dirs = {}
    /\ files = {}
    /\ other_dir = 0
    /\ PreIdle

HttpFrame == UNCHANGED <<job_description, cv_text, language, embed, last,
                        lastSwapped, threads, API_KEY, request, preVars>>

\* The handler ends: its response is sent.
Answer(r) ==
    /\ pc' = "answered"
    /\ responses' = Append(responses, r.response)
    /\ effects' = effects \o r.effects
    /\ exception' = r.exception
    /\ corpus' = r.corpus

\* api_key_required answers 401 and the endpoint is not called.
Reject401 ==
    /\ pc = "received"
    /\ ~Authenticated(request.key, API_KEY)
    /\ Answer(Done(Unauthorized(request.key), <<>>, <<>>, corpus))
    /\ UNCHANGED <<temp_dir, dirs, files, other_dir>>
    /\ HttpFrame

\* The rate limiter answers 429 and the endpoint is not called.
Reject429 ==
    /\ pc = "received"
    /\ Authenticated(request.key, API_KEY)
    /\ ~request.admitted
    /\ Answer(Done(TooManyRequests, <<>>, <<>>, corpus))
    /\ UNCHANGED <<temp_dir, dirs, files, other_dir>>
    /\ HttpFrame

\* The request has reached the body of its endpoint.
Admitted ==
    /\ pc = "received"
    /\ Authenticated(request.key, API_KEY)
    /\ request.admitted

\* generate_cover_letter_endpoint runs to its end.
HandleCoverLetter(env) ==
    /\ Admitted
    /\ request.endpoint = "/generate_cover_letter"
    /\ Answer(GenerateCoverLetter(request, env, corpus))
    /\ UNCHANGED <<temp_dir, dirs, files, other_dir>>
    /\ HttpFrame

\* An upload endpoint answers 400 to a request without its two fields.
RejectMissingFields ==
    /\ Admitted
    /\ request.endpoint \in UploadEndpoints
    /\ MissingFields(request)
    /\ Answer(Done(Response(400, <<FieldsRequiredMsg>>), <<>>, <<>>, corpus))
    /\ UNCHANGED <<temp_dir, dirs, files, other_dir>>
    /\ HttpFrame

\* An upload endpoint enters its with block: the temporary directory is
\* made and save_temporary_file writes the upload into it.
EnterTempDir ==
    /\ Admitted
    /\ request.endpoint \in UploadEndpoints
    /\ ~MissingFields(request)
    /\ \E d \in FreshDirs(dirs) :
          /\ temp_dir' = d
          /\ dirs' = dirs \cup {[name |-> d, owner |-> "request"]}
          /\ files' = files \cup {[dir |-> d, owner |-> "request"]}
    /\ pc' = "inside"
    /\ effects' = effects \o <<"mkdtemp", "save_temporary_file">>
    /\ UNCHANGED <<responses, exception, corpus, other_dir>>
    /\ HttpFrame

\* The rest of the with block of the request's endpoint.
WithBlock(env) ==
    LET file == SavedFile(FormField(request, "cv_file", NoFile)) IN
    CASE request.endpoint = "/generate_cover_letter_with_cv" ->
            CoverLetterWithCv(request, file, env, corpus)
      [] request.endpoint = "/evaluate_cv_match" ->
            EvaluateCvMatch(request, file, env, corpus, embed)
      [] request.endpoint = "/generate_interview_questions" ->
            InterviewQuestions(request, file, env, corpus)

\* The with block runs to its end, by a return or by an exception: the
\* temporary directory is removed and the response is sent.
LeaveTempDir(env) ==
    /\ pc = "inside"
    /\ LET r == WithBlock(env) IN
          Answer([r EXCEPT !.effects = @ \o <<"cleanup">>])
    /\ dirs' = RemoveDir(dirs, temp_dir)
    /\ files' = {f \in files : f.dir # temp_dir}
    /\ UNCHANGED <<temp_dir, other_dir>>
    /\ HttpFrame

\* Another upload request enters its with block ...
OtherEnter ==
    /\ other_dir = 0
    /\ \E d \in FreshDirs(dirs) :
          /\ other_dir' = d
          /\ dirs' = dirs \cup {[name |-> d, owner |-> "other"]}
          /\ files' = files \cup {[dir |-> d, owner |-> "other"]}
    /\ UNCHANGED <<pc, responses, effects, exception, corpus, temp_dir>>
    /\ HttpFrame

\* ... and leaves it.
OtherLeave ==
    /\ other_dir # 0
    /\ other_dir' = 0
    /\ dirs' = RemoveDir(dirs, other_dir)
    /\ files' = {f \in files : f.dir # other_dir}
    /\ UNCHANGED <<pc, responses, effects, exception, corpus, temp_dir>>
    /\ HttpFrame

HttpNext ==
    \/ Reject401
    \/ Reject429
    \/ \E env \in Environments : HandleCoverLetter(env)
    \/ RejectMissingFields
    \/ EnterTempDir
    \/ \E env \in Environments : LeaveTempDir(env)
    \/ OtherEnter
    \/ OtherLeave

HttpSpec == HttpInit /\ [][HttpNext]_vars

\* ------------------------------------------------------------- the claims
\* What the claims speak of, stated apart from the scorer's own tests.
AllWhitespace(text) == \A i \in 1..Len(text) : text[i] = " "

ClaimedLanguages == {"en", "tr", "de", "fr", "es", "it", "nl"}

\* The request is valid: two non-blank texts and a supported language.
ValidRequest ==
    /\ ~AllWhitespace(job_description)
    /\ ~AllWhitespace(cv_text)
    /\ language \in ClaimedLanguages

ZeroVector(v) == v[1] = 0 /\ v[2] = 0

\* Both embedding calls of the call c were made and succeeded.
BothEmbedded(c) ==
    /\ Len(c.embedded) = 2
    /\ c.embedded[1].ok
    /\ c.embedded[2].ok

\* C1: a call with a blank (empty or whitespace-only) job_description or
\* cv_text raises the invalid-input error, whatever the language code, and
\* has made no stopword lookup and no embedding call.
C1_BlankTextRejected ==
    (last.called /\ (AllWhitespace(job_description) \/ AllWhitespace(cv_text)))
        => /\ last.outcome = Raised("ValueError", <<EmptyMsg>>)
           /\ last.lookups = <<>>
           /\ last.embedded = <<>>
           /\ last.downloads = 0

\* A whitespace-only job description with a non-blank CV and a language
\* outside the table has been rejected.
C1_Witness ==
    /\ last.called
    /\ job_description = <<" ", " ">>
    /\ ~AllWhitespace(cv_text)
    /\ language = "xx"
    /\ last.outcome.kind = "raise"

\* C2: a call with non-blank texts and a language code outside
\* {en, tr, de, fr, es, it, nl} raises the unsupported-language error and
\* has made no embedding call.
C2_UnsupportedLanguageRejected ==
    (/\ last.called
     /\ ~AllWhitespace(job_description)
     /\ ~AllWhitespace(cv_text)
     /\ language \notin ClaimedLanguages)
        => /\ last.outcome = Raised("ValueError", <<UnsupportedMsg, language>>)
           /\ last.embedded = <<>>

C2_Witness ==
    /\ last.called
    /\ ~AllWhitespace(job_description)
    /\ ~AllWhitespace(cv_text)
    /\ language = "english"
    /\ last.outcome.type = "ValueError"
    /\ last.embedded = <<>>

\* The stopword file the corpus holds for each language of the table.
LanguageFileId ==
    [c \in ClaimedLanguages |->
        CASE c = "en" -> "english"
          [] c = "tr" -> "turkish"
          [] c = "de" -> "german"
          [] c = "fr" -> "french"
          [] c = "es" -> "spanish"
          [] c = "it" -> "italian"
          [] c = "nl" -> "dutch"]

\* The tokens of text that are no stopword of the language lang.
KeptTokens(text, lang) ==
    LET NoStopword(w) == Lower(w) \notin StopwordCorpus[LanguageFileId[lang]]
    IN  SelectSeq(Split(text), NoStopword)

\* C3: for a supported language, the text handed to the embedding provider
\* consists of exactly the tokens of the input whose lowercase form is not
\* in the stopword list the corpus holds for that language.
C3_StopwordsRemoved ==
    (last.called /\ language \in ClaimedLanguages)
        => /\ Len(last.embedded) >= 1
                => Split(last.embedded[1].text)
                       = KeptTokens(job_description, language)
           /\ Len(last.embedded) >= 2
                => Split(last.embedded[2].text) = KeptTokens(cv_text, language)

\* C4: get_stopwords never fails, so no call of the scorer fails because
\* the stopword list is unavailable.
C4_StopwordLookupNeverFails ==
    last.called
        => /\ \A i \in 1..Len(last.lookups) : ~last.lookups[i].raised
           /\ last.outcome # Wrapped(LookupErrorMsg)

\* C5 as claimed: a call whose embedding calls succeeded with a zero-norm
\* vector among the two raises an error.
C5_ZeroNormRejected ==
    (/\ last.called
     /\ BothEmbedded(last)
     /\ (ZeroVector(last.embedded[1].vec) \/ ZeroVector(last.embedded[2].vec)))
        => last.outcome.kind = "raise"

\* C5 as amended: a call whose embedding calls succeeded with a zero-norm
\* vector among the two returns the score 0.0; it raises nothing.
C5_ZeroNormScoresZero ==
    (/\ last.called
     /\ BothEmbedded(last)
     /\ (ZeroVector(last.embedded[1].vec) \/ ZeroVector(last.embedded[2].vec)))
        => last.outcome = Returned(0)

C5_Witness ==
    /\ last.called
    /\ BothEmbedded(last)
    /\ ZeroVector(last.embedded[1].vec)
    /\ ~ZeroVector(last.embedded[2].vec)
    /\ last.outcome.kind = "return"

\* The failure kind of the last call, of the four the claims name.
FailureKind ==
    IF AllWhitespace(job_description) \/ AllWhitespace(cv_text) THEN "invalid"
    ELSE IF language \notin ClaimedLanguages THEN "unsupported"
    ELSE IF \E i \in 1..Len(last.embedded) : ~last.embedded[i].ok THEN "provider"
    ELSE IF /\ BothEmbedded(last)
            /\ \E i \in 1..2 : ZeroVector(last.embedded[i].vec) THEN "degenerate"
    ELSE "none"

\* What the immediate caller can tell from the value it gets: the type of
\* the exception and its message.
ErrorKind(o) ==
    IF o.kind = "return" THEN "score"
    ELSE IF o.type = "ValueError" /\ o.msg = <<EmptyMsg>> THEN "invalid"
    ELSE IF o.type = "ValueError" /\ Len(o.msg) = 2 /\ o.msg[1] = UnsupportedMsg
         THEN "unsupported"
    ELSE IF o.type = "Exception" /\ o.msg = <<WrapMsg, EmbedErrorMsg>>
         THEN "provider"
    ELSE "other"

\* C6 as claimed: each of the four failure kinds reaches the caller as an
\* error the caller can tell from the other three, never as a score.
C6_FourFailureKindsDistinct ==
    last.called
        => /\ FailureKind \in {"invalid", "unsupported", "provider"}
                => ErrorKind(last.outcome) = FailureKind
           /\ FailureKind = "degenerate"
                => ErrorKind(last.outcome) = "other"

\* C6 as amended: invalid input, unsupported language and embedding
\* provider error reach the caller as three errors it can tell apart,
\* never as a score; a zero-norm vector is no failure, the call returns 0.0.
C6_ThreeFailureKindsDistinct ==
    last.called
        => /\ FailureKind \in {"invalid", "unsupported", "provider"}
                => ErrorKind(last.outcome) = FailureKind
           /\ FailureKind = "degenerate" => last.outcome = Returned(0)

\* The second embedding call failed and the caller got the provider error.
C6_Witness ==
    /\ last.called
    /\ FailureKind = "provider"
    /\ Len(last.embedded) = 2
    /\ last.outcome.kind = "raise"

\* Two outcomes are the same: the same score, or both failures.
SameOutcome(a, b) ==
    \/ a.kind = "return" /\ b.kind = "return" /\ a.value = b.value
    \/ a.kind = "raise" /\ b.kind = "raise"

\* C7: for a valid request, the call and the call with the two texts
\* swapped, made against the same corpus, end the same way.
C7_Symmetric ==
    (/\ last.called
     /\ lastSwapped.called
     /\ ValidRequest
     /\ last.corpusAtCall = lastSwapped.corpusAtCall
     /\ last.corpusAfter = lastSwapped.corpusAfter)
        => SameOutcome(last.outcome, lastSwapped.outcome)

\* Two different texts with vectors of different norms were scored both
\* ways round.
C7_Witness ==
    /\ last.called
    /\ lastSwapped.called
    /\ ValidRequest
    /\ last.corpusAtCall = lastSwapped.corpusAtCall
    /\ last.corpusAfter = lastSwapped.corpusAfter
    /\ BothEmbedded(last)
    /\ last.embedded[1].vec = <<1, 0>>
    /\ last.embedded[2].vec = <<1, 1>>
    /\ lastSwapped.outcome.kind = "return"

\* C8: a call on twice the same text, with a supported language, that
\* embedded the text as a non-zero vector returns 1.0, up to one unit of
\* rounding.
C8_SelfSimilarityIsOne ==
    (/\ last.called
     /\ language \in ClaimedLanguages
     /\ job_description = cv_text
     /\ BothEmbedded(last)
     /\ ~ZeroVector(last.embedded[1].vec))
        => /\ last.outcome.kind = "return"
           /\ last.outcome.value \in (Scale - 1)..(Scale + 1)

C8_Witness ==
    /\ last.called
    /\ language = "tr"
    /\ job_description = cv_text
    /\ BothEmbedded(last)
    /\ last.embedded[1].vec = <<1, 1>>
    /\ last.outcome.kind = "return"

\* C9: a valid request whose two embedding vectors are non-zero gets a
\* score between 0.0 and 1.0.
C9_ScoreInUnitInterval ==
    (/\ last.called
     /\ ValidRequest
     /\ BothEmbedded(last)
     /\ ~ZeroVector(last.embedded[1].vec)
     /\ ~ZeroVector(last.embedded[2].vec))
        => /\ last.outcome.kind = "return"
           /\ last.outcome.value >= 0
           /\ last.outcome.value <= Scale

\* C10: a call that starts against the same corpus as the call before it
\* on the same arguments ends as that call did.
C10_Deterministic ==
    [][(/\ last.called
        /\ last'.called
        /\ last'.corpusAtCall = last.corpusAtCall)
            => last'.outcome = last.outcome]_vars

\* The original reading of C11: no step changes the stopword corpus, the
\* loaded model or the arguments.
C11_NoSideEffects ==
    [][/\ corpus' = corpus
       /\ embed' = embed
       /\ <<job_description, cv_text, language>>'
              = <<job_description, cv_text, language>>]_vars

\* C11: a call leaves its arguments and the loaded embedding model as they
\* were, and leaves an installed stopword corpus installed without
\* downloading anything.  Only a call that finds the corpus absent attempts
\* a download, once, and the corpus changes only by that download
\* installing it.
C11_FrameExceptDownload ==
    [][/\ embed' = embed
       /\ <<job_description, cv_text, language>>'
              = <<job_description, cv_text, language>>
       /\ \A c \in {last', lastSwapped'} :
              c.called =>
                /\ c.downloads <= 1
                /\ (c.corpusAtCall = "present" =>
                        c.downloads = 0 /\ c.corpusAfter = "present")
                /\ (c.corpusAfter # c.corpusAtCall =>
                        c.downloads = 1 /\ c.corpusAfter = "present")
       /\ (corpus' # corpus => corpus = "absent" /\ corpus' = "present")]_vars

\* A valid call found the corpus absent, installed it and returned a score.
C11_Witness ==
    /\ last.called
    /\ ValidRequest
    /\ last.corpusAtCall = "absent"
    /\ last.corpusAfter = "present"
    /\ last.downloads = 1
    /\ last.outcome.kind = "return"

\* The tokens of text that are none of the words a lookup answered.
TokensWithout(text, words) ==
    LET Kept(w) == Lower(w) \notin words IN SelectSeq(Split(text), Kept)

\* C17: a valid call makes at most two embedding calls, the job description
\* first and the CV second; it makes both when both succeed; a failed
\* embedding call is the last one made, is made once, and its failure ends
\* the call.
C17_EmbedTwiceJobFirstNoRetry ==
    (last.called /\ ValidRequest) =>
        /\ Len(last.embedded) <= 2
        /\ (Len(last.embedded) >= 1 =>
               Split(last.embedded[1].text)
                   = TokensWithout(job_description, last.lookups[1].words))
        /\ (Len(last.embedded) = 2 =>
               /\ last.embedded[1].ok
               /\ Split(last.embedded[2].text)
                      = TokensWithout(cv_text, last.lookups[2].words))
        /\ (last.outcome.kind = "return" => BothEmbedded(last))
        /\ \A i \in 1..Len(last.embedded) :
               ~last.embedded[i].ok =>
                  /\ i = Len(last.embedded)
                  /\ last.outcome.kind = "raise"

\* The job description was embedded, the embedding of the CV failed and the
\* call ended in a failure after exactly these two calls.
C17_Witness ==
    /\ last.called
    /\ ValidRequest
    /\ Len(last.embedded) = 2
    /\ last.embedded[1].ok
    /\ ~last.embedded[2].ok
    /\ last.embedded[1].text # last.embedded[2].text
    /\ last.outcome.kind = "raise"

\* The outcomes the call of thread t has when it runs alone from the corpus
\* it started against, its own download ending as it did.
AloneOutcomes(t) ==
    LET own == IF threads[t].download = "none" THEN BOOLEAN
               ELSE {threads[t].download = "succeeded"}
    IN  {ComputeSimilarityScore(job_description, cv_text, language,
                                threads[t].corpusAtCall, embed, s).outcome :
            s \in own}

\* C12: under every interleaving of the running calls, a call that has
\* ended has the outcome it has when run alone.
C12_NoInterference ==
    \A t \in Threads :
        threads[t].pc = "done" => threads[t].outcome \in AloneOutcomes(t)

\* The request carries the configured key.
KeyMatches ==
    /\ request.key \notin {"None", ""}
    /\ request.key = API_KEY

\* The request has been answered with the status code alone.
AnsweredWith(status) ==
    /\ pc = "answered"
    /\ Len(responses) = 1
    /\ responses[1].status = status

\* Nothing has been done for the request: no call made, no exception, no
\* directory and no file of its own.
NothingDone ==
    /\ effects = <<>>
    /\ exception = <<>>
    /\ temp_dir = 0
    /\ \A d \in dirs : d.owner # "request"
    /\ \A f \in files : f.owner # "request"

\* C13: a request whose X-API-KEY header is absent, empty or different
\* from the configured key never gets into the endpoint and is answered 401
\* with nothing done for it; in particular, with no key configured every
\* request is answered 401.
C13_KeyRequired ==
    /\ ~KeyMatches =>
          /\ pc \in {"received", "answered"}
          /\ NothingDone
          /\ (pc = "answered" => AnsweredWith(401))
    /\ API_KEY = "None" =>
          /\ pc # "inside"
          /\ (pc = "answered" => AnsweredWith(401))

\* With no key configured, a complete request to /evaluate_cv_match that
\* carries a key has been answered 401.
C13_Witness ==
    /\ API_KEY = "None"
    /\ request.key = "k1"
    /\ request.endpoint = "/evaluate_cv_match"
    /\ request.content = "multipart"
    /\ request.job_description = <<"a">>
    /\ request.cv_file.filename = "cv.txt"
    /\ request.admitted
    /\ AnsweredWith(401)

\* The request is authenticated, within the rate limit, and has the body
\* its endpoint reads: JSON at /generate_cover_letter, multipart elsewhere.
Served ==
    /\ KeyMatches
    /\ request.admitted

RightContent ==
    request.content = IF request.endpoint = "/generate_cover_letter"
                      THEN "json" ELSE "multipart"

JobGiven ==
    /\ request.job_description # <<"None">>
    /\ ~AllWhitespace(request.job_description)

CvGiven == request.cv_file.filename = "cv.txt"

\* C14: an authenticated and otherwise valid request, at any of the four
\* POST endpoints, whose language code is outside the table is answered
\* 400 with the 'Unsupported language' body.
C14_UnsupportedLanguage400 ==
    (/\ pc = "answered"
     /\ Served
     /\ RightContent
     /\ JobGiven
     /\ (request.endpoint # "/generate_cover_letter" => CvGiven)
     /\ request.file_format = "PDF"
     /\ request.language = "xx")
        => /\ AnsweredWith(400)
           /\ responses[1].body = <<UnsupportedLanguageMsg>>

\* C15: a request whose job_description is missing, empty or
\* whitespace-only, or whose cv_file is missing at an upload endpoint, is
\* answered 400 and nothing is done for it.
C15_MissingInput400 ==
    (/\ pc = "answered"
     /\ Served
     /\ RightContent
     /\ \/ ~JobGiven
        \/ (request.endpoint # "/generate_cover_letter"
               /\ request.cv_file.filename = ""))
        => /\ AnsweredWith(400)
           /\ NothingDone

\* C16: an upload endpoint answers 415 to a request whose body is not
\* multipart/form-data.
C16_NotMultipart415 ==
    (/\ pc = "answered"
     /\ Served
     /\ request.endpoint # "/generate_cover_letter"
     /\ request.content # "multipart")
        => AnsweredWith(415)

\* The strings of a sequence.
Parts(seq) == {seq[i] : i \in 1..Len(seq)}

\* C18: an authenticated request whose handler has ended has got one
\* response and no more; an exception raised while handling it gives
\* status 500 with the body 'Internal server error.', and no part of the
\* exception's text is in the response.
C18_OneResponseNoLeak ==
    KeyMatches =>
        /\ Len(responses) = (IF pc = "answered" THEN 1 ELSE 0)
        /\ (exception # <<>> =>
               /\ AnsweredWith(500)
               /\ responses[1].body = <<"Internal server error.">>)
        /\ \A i \in 1..Len(responses) :
               Parts(responses[i].body) \cap Parts(exception) = {}

\* The scorer raised at /evaluate_cv_match and the request was answered 500.
C18_Witness ==
    /\ Served
    /\ request.endpoint = "/evaluate_cv_match"
    /\ "compute_similarity_score" \in Parts(effects)
    /\ exception # <<>>
    /\ AnsweredWith(500)

\* C19: a request to a cover-letter endpoint that is answered 400 has
\* caused no LLM call and no writing of an output file.
C19_ValidationBeforeLLM ==
    (/\ request.endpoint \in {"/generate_cover_letter",
                               "/generate_cover_letter_with_cv"}
     /\ AnsweredWith(400))
        => /\ "openai" \notin Parts(effects)
           /\ "format_function" \notin Parts(effects)

\* C20: the upload of a request lies in the temporary directory made for
\* that request and nowhere else; directory and file exist only while the
\* handler is inside its with block, so neither exists once the request is
\* answered; two requests inside their with blocks have different
\* directories.
C20_TempDirPerRequest ==
    /\ \A f \in files :
          f.owner = "request" => pc = "inside" /\ f.dir = temp_dir
    /\ \A d \in dirs :
          d.owner = "request" => pc = "inside" /\ d.name = temp_dir
    /\ \A f \in files : f.owner = "other" => f.dir = other_dir
    /\ pc = "inside" =>
          /\ [name |-> temp_dir, owner |-> "request"] \in dirs
          /\ [dir |-> temp_dir, owner |-> "request"] \in files
          /\ (other_dir # 0 => other_dir # temp_dir)
    /\ \A d1, d2 \in dirs : d1.name = d2.name => d1 = d2

\* An upload was saved, extraction raised, and the request was answered
\* 500 while another upload request was inside its with block.
C20_Witness ==
    /\ Served
    /\ request.endpoint = "/generate_interview_questions"
    /\ "save_temporary_file" \in Parts(effects)
    /\ "cleanup" \in Parts(effects)
    /\ exception = <<ExtractErrorMsg>>
    /\ AnsweredWith(500)
    /\ temp_dir # 0
    /\ other_dir # 0

\* The places of the call name in the calls made.
Places(name) == {i \in 1..Len(effects) : effects[i] = name}

\* The places where the language code was tested against the table, by the
\* endpoint or by the scorer.
LanguageTests ==
    Places("get_language_name") \cup Places("language in SUPPORTED_LANGUAGES")

\* C21: a /evaluate_cv_match request that got as far as the similarity
\* computation has had its language code tested exactly once, and before
\* any text was embedded for the similarity.
C21_LanguageValidatedOnce ==
    (/\ request.endpoint = "/evaluate_cv_match"
     /\ pc = "answered"
     /\ Places("compute_similarity_score") # {})
        => /\ Cardinality(LanguageTests) = 1
           /\ \A i \in LanguageTests :
                 \A j \in Places("embed") : i < j

\* a is b with some elements left out, the others in order and unchanged.
RECURSIVE IsSubsequence(_, _)
IsSubsequence(a, b) ==
    IF a = <<>> THEN TRUE
    ELSE IF b = <<>> THEN FALSE
    ELSE IF Head(a) = Head(b) THEN IsSubsequence(Tail(a), Tail(b))
    ELSE IsSubsequence(a, Tail(b))

\* The whitespace-separated tokens of t, found by scanning t.
RECURSIVE TokensOf(_)
TokensOf(t) ==
    IF t = <<>> THEN <<>>
    ELSE IF Head(t) = " " THEN TokensOf(Tail(t))
    ELSE LET Stop == {i \in 1..Len(t) : t[i] = " "}
             n == IF Stop = {} THEN Len(t)
                  ELSE (CHOOSE i \in Stop : \A j \in Stop : i <= j) - 1
         IN  <<SubSeq(t, 1, n)>> \o TokensOf(SubSeq(t, n + 1, Len(t)))

\* t neither begins nor ends with a space and has no two spaces in a row.
SingleSpaced(t) ==
    /\ t # <<>> => t[1] # " " /\ t[Len(t)] # " "
    /\ \A i \in 1..(Len(t) - 1) : ~(t[i] = " " /\ t[i + 1] = " ")

\* C22: the text preprocess_text returns consists of tokens of its input,
\* in their order and casing, joined by single spaces without leading or
\* trailing whitespace; preprocess_text applied to that text returns it.
C22_SubsequenceAndIdempotent ==
    /\ (pre.called /\ ~pre.raised) =>
          /\ IsSubsequence(TokensOf(pre.text), TokensOf(job_description))
          /\ SingleSpaced(pre.text)
    /\ again.called =>
          /\ ~again.raised
          /\ again.text = pre.text

\* From 'a Aa' with the English stopword file, 'a' was removed and 'Aa'
\* kept in its casing; preprocessing 'Aa' again returned 'Aa'.
C22_Witness ==
    /\ job_description = <<"a", " ", "A", "a">>
    /\ language = "english"
    /\ pre.called
    /\ pre.text = <<"A", "a">>
    /\ again.called
    /\ again.text = <<"A", "a">>

====
